---------------------------- MODULE Spec2Model ----------------------------
(***************************************************************************)
(* Verification model of the extraction and media-resolution pipeline of   *)
(* seguimiento-parlamentario: the transcript handler (both the FastAPI     *)
(* router and the Flask service), the extract handler, the session         *)
(* crawlers, the caption path and the download path of the media resolver, *)
(* chunk_text, batch and the retrieval index.                              *)
(*                                                                         *)
(* Python dicts are modelled as TLA+ functions over their keys, so that    *)
(* "the session has no transcript field" is "transcript" \notin DOMAIN s.  *)
(***************************************************************************)
EXTENDS Integers, Sequences, FiniteSets, TLC

VARIABLES
    (* ---- deployment ---- *)
    variant,      \* which transcript/extract handler is deployed: "api" | "services"
    backend,      \* SERVICE_MODE: "gcloud" (Firestore) | "celery" (Mongo)
    (* ---- external services ---- *)
    commissions,  \* document store, collection "commissions": id -> document
    store,        \* document store, collection "sessions": sequence of [key, doc]
    index,        \* retrieval index, namespace "transcript_chunks": _id -> record
    tasks,        \* task queue: sequence of enqueued tasks
    (* ---- transcript handler in flight ---- *)
    h,            \* the handler's locals and position
    g,            \* history of the current handler run
    runs,         \* number of transcript deliveries so far
    (* ---- extract handler in flight ---- *)
    now,          \* the wall clock, in hours
    e,            \* the extract handler's locals, position and history
    eruns,        \* number of extract runs so far
    (* ---- Senate crawl in flight ---- *)
    site,         \* the chamber's site: the window options and their result pages
    cr,           \* the crawler's locals, the page the browser shows, and history
    (* ---- pure functions under test ---- *)
    tq,           \* a call of check_title / the candidate loop: inputs and result
    cq,           \* a call of chunk_text: inputs and result
    (* ---- retrieval index, indexed directly ---- *)
    ixlog,        \* history of upsert_records calls: session key -> transcripts indexed
    (* ---- download path of the resolver ---- *)
    disk,         \* the files under ./tmp/audios
    dl,           \* per resolution in flight: locals, position, worker pool, history
    (* ---- more functions and loops under test ---- *)
    bq,           \* a call of batch: inputs and result
    lq,           \* chunk_text, loop turn by loop turn
    (* ---- Chamber of Deputies crawl in flight ---- *)
    mq            \* the crawler's locals, position and history

hvars == <<h, g, runs>>
evars == <<now, e, eruns>>
cvars == <<site, cr>>
xvars == <<tq, cq, ixlog, disk, dl>>
yvars == <<bq, lq, mq>>
vars == <<variant, backend, commissions, store, index, tasks, h, g, runs, now, e, eruns,
          site, cr, tq, cq, ixlog, disk, dl, bq, lq, mq>>

-----------------------------------------------------------------------------
(* Bounds of the model *)

MaxSessionId == 2
MaxRuns == 2
MaxExtracts == 2
MaxClock == 48
MaxTick == 6

(* Program constants *)

ChunkSize == 500
Overlap == 50
BatchSize == 96
Noon == 12
SafetyMarginHours == 12

-----------------------------------------------------------------------------
(* Generic helpers *)

Range(f) == {f[x] : x \in DOMAIN f}

Min(a, b) == IF a < b THEN a ELSE b

-----------------------------------------------------------------------------
(* Commissions: one per chamber, as created by the catalog bootstrap.      *)

Senado == "Senado"
Camara == "Camara de Diputados"

CommissionIds == {1, 2}

ChamberOf(c) == IF c = 1 THEN Senado ELSE Camara

SessionIds == 1..MaxSessionId

\* start hour of the sessions handed to the handler: morning sessions carry
\* odd ids, afternoon sessions even ids
StartOf(i) == IF i % 2 = 1 THEN 9 ELSE 15

\* A session as the crawler produces it (no transcript, no video_url).
Sessions ==
    {[id |-> i, commission_id |-> c, start |-> StartOf(i)] :
        i \in SessionIds, c \in CommissionIds}

TimeOfDay(start) == start % 24

-----------------------------------------------------------------------------
(* Video titles are sequences of text pieces; the title is their           *)
(* concatenation.  Pieces are chosen so that each regex atom of the        *)
(* title patterns matches whole pieces.                                    *)

LetterPieces == {"Comision", "Sesion", "Hacienda", "Sala", "am", "pm", "de", "marzo", "abril"}
DayPieces == {"5", "6"}
YearPieces == {"2024"}

\* unicodedata.normalize('NFD', ...) with the combining marks dropped
StripAccents(p) ==
    CASE p = "Comisión" -> "Comision"
      [] p = "Sesión" -> "Sesion"
      [] OTHER -> p

NormalizeTitle(title) == [i \in DOMAIN title |-> StripAccents(title[i])]

IsLetters(u) == Len(u) >= 1 /\ \A i \in 1..Len(u) : u[i] \in LetterPieces

Suffix(u, from) == SubSeq(u, from, Len(u))

\* " \d{1,2} de [a-zA-Z]+ \d{4}$" preceded by " -"
MatchSenateTail(u) ==
    /\ Len(u) >= 10
    /\ SubSeq(u, 1, 3) = <<" ", "-", " ">>
    /\ u[4] \in DayPieces
    /\ SubSeq(u, 5, 7) = <<" ", "de", " ">>
    /\ IsLetters(SubSeq(u, 8, Len(u) - 2))
    /\ u[Len(u) - 1] = " "
    /\ u[Len(u)] \in YearPieces

\* " \d{1,2} [a-zA-Z]+ \d{4}$"
MatchDateTail(u) ==
    /\ Len(u) >= 6
    /\ u[1] = " "
    /\ u[2] \in DayPieces
    /\ u[3] = " "
    /\ IsLetters(SubSeq(u, 4, Len(u) - 2))
    /\ u[Len(u) - 1] = " "
    /\ u[Len(u)] \in YearPieces

\* "( [a-zA-Z]+)? \d{1,2} [a-zA-Z]+ \d{4}$"
MatchChamberTail(u) ==
    \/ MatchDateTail(u)
    \/ \E k \in 2..Len(u) :
          /\ u[1] = " "
          /\ IsLetters(SubSeq(u, 2, k))
          /\ MatchDateTail(Suffix(u, k + 1))

\* SenateVideoProcessor.check_title: ^Comision .* - \d{1,2} de [a-zA-Z]+ \d{4}$
SenateCheckTitle(title, time) ==
    LET t == NormalizeTitle(title) IN
    /\ Len(t) >= 2
    /\ t[1] = "Comision"
    /\ t[2] = " "
    /\ \E p \in 3..Len(t) : MatchSenateTail(Suffix(t, p))

\* ChamberOfDeputiesVideoProcessor.check_title:
\*   ^Comision .*(?: /{keep})?(?<!/{exclude})/( [a-zA-Z]+)? \d{1,2} [a-zA-Z]+ \d{4}$
\* The optional group is absorbed by ".*"; only the lookbehind constrains
\* what stands before the last "/".
ChamberCheckTitle(title, time) ==
    LET t == NormalizeTitle(title)
        exclude == IF time < Noon THEN "pm" ELSE "am"
    IN
    /\ Len(t) >= 2
    /\ t[1] = "Comision"
    /\ t[2] = " "
    /\ \E p \in 3..Len(t) :
          /\ t[p] = "/"
          /\ ~(t[p - 2] = "/" /\ t[p - 1] = exclude)
          /\ MatchChamberTail(Suffix(t, p + 1))

check_title(chamber, title, time) ==
    IF chamber = Senado THEN SenateCheckTitle(title, time)
                        ELSE ChamberCheckTitle(title, time)

-----------------------------------------------------------------------------
(* The platform search and the caption track                              *)

TSenate == <<"Comisión", " ", "Hacienda", " ", "-", " ", "5", " ", "de", " ", "marzo", " ", "2024">>
TCamAm  == <<"Comisión", " ", "Hacienda", " ", "/", "am", "/", " ", "5", " ", "marzo", " ", "2024">>
TCamPm  == <<"Comisión", " ", "Hacienda", " ", "/", "pm", "/", " ", "5", " ", "marzo", " ", "2024">>
TSala   == <<"Sesión", " ", "de", " ", "Sala">>

Video(t, v) == [title |-> t, videoId |-> v]

\* responses of the search endpoint: pageInfo.totalResults and items
Responses ==
    { [totalResults |-> 0, items |-> <<>>],
      [totalResults |-> 1, items |-> <<Video(TSala, 1)>>],
      [totalResults |-> 2, items |-> <<Video(TSala, 1), Video(TSenate, 2)>>],
      [totalResults |-> 2, items |-> <<Video(TCamPm, 3), Video(TCamAm, 4)>>],
      [totalResults |-> 1, items |-> <<>>] }

\* caption segments of each video, in order
Captions(videoId) ==
    CASE videoId = 2 -> <<"buenos", "dias">>
      [] videoId = 3 -> <<"tarde">>
      [] videoId = 4 -> <<"manana", "se", "abre">>
      [] OTHER -> <<>>

\* ' '.join(map(lambda x: x.text, captions))
RECURSIVE JoinSpace(_)
JoinSpace(segs) ==
    IF Len(segs) = 0 THEN <<>>
    ELSE IF Len(segs) = 1 THEN <<segs[1]>>
    ELSE <<segs[1], " ">> \o JoinSpace(Suffix(segs, 2))

\* the loop over response.json()["items"]: index of the first item whose
\* title passes check_title, 0 when there is none (video_match is None)
FirstMatch(chamber, items, time) ==
    LET hits == {i \in 1..Len(items) : check_title(chamber, items[i].title, time)}
    IN IF hits = {} THEN 0 ELSE CHOOSE i \in hits : \A j \in hits : i <= j

\* a resolver that falls back to the first candidate when no title matches
YtLookup_FirstItem(chamber, session, response) ==
    IF response.totalResults = 0 THEN [outcome |-> "notfound", item |-> 0]
    ELSE LET m == FirstMatch(chamber, response.items, TimeOfDay(session.start))
         IN IF m = 0 /\ Len(response.items) = 0 THEN [outcome |-> "notfound", item |-> 0]
            ELSE [outcome |-> "match", item |-> IF m = 0 THEN 1 ELSE m]

\* VideoProcessor.get_transcription_from_yt up to the caption fetch:
\* "notfound" is YouTubeVideoNotFoundError, otherwise the matched item
YtLookup(chamber, session, response) ==
    IF response.totalResults = 0 THEN [outcome |-> "notfound", item |-> 0]
    ELSE LET m == FirstMatch(chamber, response.items, TimeOfDay(session.start))
         IN IF m = 0 THEN [outcome |-> "notfound", item |-> 0]
                     ELSE [outcome |-> "match", item |-> m]

WithTranscript(session, transcript) ==
    [k \in DOMAIN session \cup {"transcript"} |->
        IF k = "transcript" THEN transcript ELSE session[k]]

-----------------------------------------------------------------------------
(* Chunking and indexing                                                   *)

\* chunk_text on the token sequence of the text
RECURSIVE ChunkFrom(_, _, _, _)
ChunkFrom(tokens, start, chunk_size, overlap) ==
    IF start < Len(tokens)
    THEN <<SubSeq(tokens, start + 1, Min(start + chunk_size, Len(tokens)))>>
            \o ChunkFrom(tokens, start + (chunk_size - overlap), chunk_size, overlap)
    ELSE <<>>

\* a chunking that steps by the whole chunk size
chunk_text_NoOverlap(tokens, chunk_size, overlap) == ChunkFrom(tokens, 0, chunk_size, 0)

chunk_text(tokens, chunk_size, overlap) == ChunkFrom(tokens, 0, chunk_size, overlap)

\* batch(iterable, size)
RECURSIVE BatchFrom(_, _, _)
BatchFrom(items, i, size) ==
    IF i < Len(items)
    THEN <<SubSeq(items, i + 1, Min(i + size, Len(items)))>> \o BatchFrom(items, i + size, size)
    ELSE <<>>

\* a batching that yields only the full batches
batch_DropsRemainder(items, size) ==
    BatchFrom(SubSeq(items, 1, (Len(items) \div size) * size), 0, size)

batch(items, size) == BatchFrom(items, 0, size)

Digit(n) ==
    CASE n = 0 -> "0" [] n = 1 -> "1" [] n = 2 -> "2" [] n = 3 -> "3" [] n = 4 -> "4"
      [] n = 5 -> "5" [] n = 6 -> "6" [] n = 7 -> "7" [] n = 8 -> "8" [] n = 9 -> "9"

\* str(n) of a non-negative integer, as its characters
RECURSIVE Str(_)
Str(n) == IF n < 10 THEN <<Digit(n)>> ELSE Str(n \div 10) \o <<Digit(n % 10)>>

\* a record id that leaves the chunk number out
RecordId_NoChunk(commission_id, session_id, i) ==
    Str(commission_id) \o <<"-">> \o Str(session_id)

\* f"{session['commission_id']}-{session['id']}-{i}"
RecordId(commission_id, session_id, i) ==
    Str(commission_id) \o <<"-">> \o Str(session_id) \o <<"-">> \o Str(i)

\* the records PineconeDatabase.upsert_records builds for a session
ChunkRecords(session) ==
    LET chunks == chunk_text(session.transcript, ChunkSize, Overlap) IN
    [i \in 1..Len(chunks) |->
        [_id |-> RecordId(session.commission_id, session.id, i - 1),
         session_id |-> session.id,
         commission_id |-> session.commission_id,
         date |-> session.start,
         chunk_text |-> chunks[i]]]

\* index.upsert_records of one batch: overwrite by _id
UpsertBatch(idx, records) ==
    LET ids == {records[i]._id : i \in 1..Len(records)} IN
    [id \in DOMAIN idx \cup ids |->
        IF id \in ids
        THEN LET i == CHOOSE j \in 1..Len(records) :
                        /\ records[j]._id = id
                        /\ \A k \in 1..Len(records) : records[k]._id = id => k <= j
             IN records[i]
        ELSE idx[id]]

RECURSIVE UpsertBatches(_, _, _)
UpsertBatches(idx, batches, n) ==
    IF n = 0 THEN idx
    ELSE UpsertBatch(UpsertBatches(idx, batches, n - 1), batches[n])

-----------------------------------------------------------------------------
(* Document store                                                          *)

\* FirestoreDatabase.add_session: document(str(id)).set(doc)
FirestoreAddSession(st, doc) ==
    IF \E i \in 1..Len(st) : st[i].key = doc.id
    THEN [i \in 1..Len(st) |-> IF st[i].key = doc.id THEN [key |-> doc.id, doc |-> doc] ELSE st[i]]
    ELSE Append(st, [key |-> doc.id, doc |-> doc])

\* MongoDatabase.add_session: insert_many([doc]) under a fresh _id
MongoAddSession(st, doc) == Append(st, [key |-> Len(st) + 1, doc |-> doc])

add_session(st, doc) ==
    IF backend = "gcloud" THEN FirestoreAddSession(st, doc) ELSE MongoAddSession(st, doc)

-----------------------------------------------------------------------------
(* The transcript handler                                                  *)
(*   api:      POST /processing/transcript  (api/processing/routes.py)     *)
(*   services: POST /transcript             (services/processing/app.py)   *)

NoSession == [id |-> 0, commission_id |-> 0, start |-> 0]
NoResponse == [totalResults |-> 0, items |-> <<>>]

Idle == [pc |-> "idle", session |-> NoSession, flag |-> FALSE]

\* history of one run: what the resolver was given and did, which steps ran
NewRun ==
    [response |-> NoResponse, outcome |-> "none", indexed |-> FALSE,
     upsertFailed |-> FALSE, persisted |-> FALSE, returned |-> "none",
     flagSeen |-> FALSE]

InFlight == h.pc \notin {"idle", "done"}

CommissionDoc(c) ==
    [id |-> c, chamber |-> ChamberOf(c), automatic_processing_enabled |-> FALSE,
     extraction_enabled |-> FALSE, last_update |-> 0]

\* the handlers' part of the initial state: an empty store, index and queue,
\* the commissions as the bootstrap leaves them, no handler running
HandlersInit ==
    /\ variant \in {"api", "services"}
    /\ backend \in {"gcloud", "celery"}
    /\ commissions = [c \in CommissionIds |-> CommissionDoc(c)]
    /\ store = <<>>
    /\ index = <<>>
    /\ tasks = <<>>
    /\ h = Idle
    /\ g = NewRun
    /\ runs = 0

\* a transcript task is delivered: the handler reads the commission and
\* picks the processor of its chamber
TStart(s) ==
    /\ ~InFlight
    /\ runs < MaxRuns
    /\ h' = [pc |-> "resolve", session |-> s,
             flag |-> commissions[s.commission_id].automatic_processing_enabled]
    /\ g' = [NewRun EXCEPT !.flagSeen = commissions[s.commission_id].automatic_processing_enabled]
    /\ runs' = runs + 1
    /\ UNCHANGED <<variant, backend, commissions, store, index, tasks, evars, cvars, xvars, yvars>>

\* processor.get_transcription_from_yt raises the media-not-found error
TResolveNotFound(response) ==
    /\ h.pc = "resolve"
    /\ YtLookup(ChamberOf(h.session.commission_id), h.session, response).outcome = "notfound"
    /\ h' = [h EXCEPT !.pc = "notfound"]
    /\ g' = [g EXCEPT !.response = response, !.outcome = "notfound"]
    /\ UNCHANGED <<variant, backend, commissions, store, index, tasks, runs, evars, cvars, xvars, yvars>>

\* where the handler goes once the resolver has returned the session
AfterResolve == IF variant = "api" THEN "upsert" ELSE "add"

\* a title matched and the caption track was fetched: the transcript is
\* attached to the session dict, which is the handler's result
TResolveOk(response) ==
    /\ h.pc = "resolve"
    /\ LET r == YtLookup(ChamberOf(h.session.commission_id), h.session, response) IN
        /\ r.outcome = "match"
        /\ h' = [h EXCEPT !.pc = AfterResolve,
                          !.session = WithTranscript(h.session,
                              JoinSpace(Captions(response.items[r.item].videoId)))]
    /\ g' = [g EXCEPT !.response = response, !.outcome = "transcribed"]
    /\ UNCHANGED <<variant, backend, commissions, store, index, tasks, runs, evars, cvars, xvars, yvars>>

\* a title matched but the caption fetch failed: an exception that is not
\* the media-not-found error leaves the handler
TResolveFetchError(response) ==
    /\ h.pc = "resolve"
    /\ YtLookup(ChamberOf(h.session.commission_id), h.session, response).outcome = "match"
    /\ h' = [h EXCEPT !.pc = "done"]
    /\ g' = [g EXCEPT !.response = response, !.outcome = "error", !.returned = "raised"]
    /\ UNCHANGED <<variant, backend, commissions, store, index, tasks, runs, evars, cvars, xvars, yvars>>

SessionBatches(session) == batch(ChunkRecords(session), BatchSize)

\* vector_db.upsert_records(result) runs to its end
TUpsert ==
    /\ h.pc = "upsert"
    /\ LET bs == SessionBatches(h.session) IN
          index' = UpsertBatches(index, bs, Len(bs))
    /\ h' = [h EXCEPT !.pc = "add"]
    /\ g' = [g EXCEPT !.indexed = TRUE]
    /\ UNCHANGED <<variant, backend, commissions, store, tasks, runs, evars, cvars, xvars, yvars>>

\* where the handler goes when upsert_records raises
AfterUpsertFailure == "done"

\* vector_db.upsert_records(result) raises after n batches went through
TUpsertFails(n) ==
    /\ h.pc = "upsert"
    /\ LET bs == SessionBatches(h.session) IN
          /\ n <= Len(bs)
          /\ n < Len(bs) \/ n = 0
          /\ index' = UpsertBatches(index, bs, n)
    /\ h' = [h EXCEPT !.pc = AfterUpsertFailure]
    /\ g' = [g EXCEPT !.upsertFailed = TRUE,
                      !.returned = IF AfterUpsertFailure = "done" THEN "raised" ELSE @]
    /\ UNCHANGED <<variant, backend, commissions, store, tasks, runs, evars, cvars, xvars, yvars>>

\* db.add_session(result)
TAddSession ==
    /\ h.pc = "add"
    /\ store' = add_session(store, h.session)
    /\ h' = [h EXCEPT !.pc = "dispatch"]
    /\ g' = [g EXCEPT !.persisted = TRUE]
    /\ UNCHANGED <<variant, backend, commissions, index, tasks, runs, evars, cvars, xvars, yvars>>

\* a dispatch that does not test the flag
DispatchFlag_Always == TRUE

\* the flag the dispatch tests: the api handler fetched the commission before
\* resolving, the service reads it after persisting
DispatchFlag ==
    IF variant = "api" THEN h.flag
    ELSE commissions[h.session.commission_id].automatic_processing_enabled

Task(endpoint, session, run) ==
    [endpoint |-> endpoint, session_id |-> session.id,
     commission_id |-> session.commission_id, run |-> run]

\* if commission["automatic_processing_enabled"]: two create_task calls; return
TDispatch ==
    /\ h.pc = "dispatch"
    /\ tasks' = IF DispatchFlag
                THEN tasks \o <<Task("summarize", h.session, runs),
                                 Task("mindmap", h.session, runs)>>
                ELSE tasks
    /\ h' = [h EXCEPT !.pc = "done"]
    /\ g' = [g EXCEPT !.returned = "ok"]
    /\ UNCHANGED <<variant, backend, commissions, store, index, runs, evars, cvars, xvars, yvars>>

\* whether the except branch of the media-not-found error persists the session
PersistsOnNotFound == variant = "services"

\* except VideoNotFoundError / YouTubeVideoNotFoundError: ... return e.message
TNotFound ==
    /\ h.pc = "notfound"
    /\ store' = IF PersistsOnNotFound THEN add_session(store, h.session) ELSE store
    /\ h' = [h EXCEPT !.pc = "done"]
    /\ g' = [g EXCEPT !.returned = "ok", !.persisted = PersistsOnNotFound]
    /\ UNCHANGED <<variant, backend, commissions, index, tasks, runs, evars, cvars, xvars, yvars>>

\* PUT /config/commission/{id}/processing
ToggleProcessing(c, enabled) ==
    /\ commissions[c].automatic_processing_enabled # enabled
    /\ commissions' = [commissions EXCEPT ![c].automatic_processing_enabled = enabled]
    /\ g' = IF InFlight /\ h.session.commission_id = c /\ enabled
            THEN [g EXCEPT !.flagSeen = TRUE] ELSE g
    /\ UNCHANGED <<variant, backend, store, index, tasks, h, runs, evars, cvars, xvars, yvars>>

TNext ==
    \/ \E s \in Sessions : TStart(s)
    \/ \E r \in Responses : TResolveNotFound(r)
    \/ \E r \in Responses : TResolveOk(r)
    \/ \E r \in Responses : TResolveFetchError(r)
    \/ TUpsert
    \/ \E n \in 0..1 : TUpsertFails(n)
    \/ TAddSession
    \/ TDispatch
    \/ TNotFound
    \/ \E c \in CommissionIds, enabled \in BOOLEAN : ToggleProcessing(c, enabled)

-----------------------------------------------------------------------------
(* The extract handler                                                     *)
(*   api:      POST /processing/extract/{id}  (api/processing/routes.py)   *)
(*   services: POST /extract/<id>             (services/processing/app.py) *)

\* a value handed to the crawler: a datetime (hours) or, in the service,
\* the raw "YYYY-MM-DD" string of the request
DateTime(t) == [kind |-> "datetime", t |-> t]
DateString(day) == [kind |-> "str", t |-> day * 24]

\* the optional "start" / "finish" of the request body: a day, or absent
NoDate == [given |-> FALSE, day |-> 0]
RequestDates == {NoDate, [given |-> TRUE, day |-> 0]}

\* dt.datetime.strptime(v, "%Y-%m-%d").astimezone(TZ) in the api handler;
\* the service passes the string on unparsed
RequestDate(d) == IF variant = "api" THEN DateTime(d.day * 24) ELSE DateString(d.day)

EIdle ==
    [pc |-> "idle", commission_id |-> 0, start_arg |-> NoDate, finish_arg |-> NoDate,
     today |-> 0, start |-> DateTime(0), end |-> DateTime(0),
     new_sessions |-> <<>>, i |-> 1,
     \* history
     nowAtStart |-> 0, lastUpdateAtStart |-> 0, called |-> FALSE,
     pastUpdate |-> FALSE, returned |-> "none"]

ExtractInit ==
    /\ now = 24
    /\ e = EIdle
    /\ eruns = 0

EInFlight == e.pc \notin {"idle", "done"}

\* today = dt.datetime.now(...) - dt.timedelta(hours=12)
Today(clock) == clock - SafetyMarginHours

\* lines 54-69 (api) / 31-39 (services): read the commission, compute
\* today, start and end
EStart(c, ds, df) ==
    /\ ~EInFlight
    /\ eruns < MaxExtracts
    /\ e' = [EIdle EXCEPT
                !.pc = "crawl", !.commission_id = c,
                !.start_arg = ds, !.finish_arg = df,
                !.today = Today(now),
                !.start = IF ds.given THEN RequestDate(ds)
                          ELSE DateTime(commissions[c].last_update),
                !.end = IF df.given THEN RequestDate(df) ELSE DateTime(Today(now)),
                !.nowAtStart = now,
                !.lastUpdateAtStart = commissions[c].last_update]
    /\ eruns' = eruns + 1
    /\ UNCHANGED <<variant, backend, commissions, store, index, tasks, now, hvars, cvars, xvars, yvars>>

\* a range filter that is strict at the end bound
InRange_StrictEnd(s, start, end) == s.start >= start /\ s.start < end

\* Scraper.process_data's range filter on the accumulated sessions
InRange(s, start, end) == s.start >= start /\ s.start <= end

\* the crawler compares its bounds with datetimes: a string bound raises
CrawlAccepts(start, end) == start.kind = "datetime" /\ end.kind = "datetime"

\* the sessions of a set, in id order, as the list process_data returns
RECURSIVE SeqOfSessions(_)
SeqOfSessions(S) ==
    IF S = {} THEN <<>>
    ELSE LET s == CHOOSE x \in S : \A y \in S : x.id <= y.id
         IN <<s>> \o SeqOfSessions(S \ {s})

\* scraper.process_data(commission_id, start, end) returns the sessions it
\* found on the site within the range
ECrawlReturns(found) ==
    /\ e.pc = "crawl"
    /\ CrawlAccepts(e.start, e.end)
    /\ \A s \in found : s.commission_id = e.commission_id /\ InRange(s, e.start.t, e.end.t)
    /\ e' = [e EXCEPT !.pc = "update", !.called = TRUE,
                      !.new_sessions = SeqOfSessions(found)]
    /\ UNCHANGED <<variant, backend, commissions, store, index, tasks, now, eruns, hvars, cvars, xvars, yvars>>

\* scraper.process_data raises (a wait timed out, or a bound is a string)
ECrawlRaises ==
    /\ e.pc = "crawl"
    /\ e' = [e EXCEPT !.pc = "done", !.called = TRUE, !.returned = "raised"]
    /\ UNCHANGED <<variant, backend, commissions, store, index, tasks, now, eruns, hvars, cvars, xvars, yvars>>

\* a watermark taken from the clock again at the time of the update
WatermarkValue_Recomputed == Today(now)

\* the value update_last_scraping is given
WatermarkValue == e.today

\* if not data.get("finish"): db.update_last_scraping(commission["id"], today)
EUpdate ==
    /\ e.pc = "update"
    /\ commissions' = IF e.finish_arg.given THEN commissions
                      ELSE [commissions EXCEPT ![e.commission_id].last_update = WatermarkValue]
    /\ e' = [e EXCEPT !.pc = "enqueue", !.pastUpdate = TRUE]
    /\ UNCHANGED <<variant, backend, store, index, tasks, now, eruns, hvars, cvars, xvars, yvars>>

\* for session in new_sessions: create_task("transcript", session)
EEnqueue ==
    /\ e.pc = "enqueue"
    /\ e.i <= Len(e.new_sessions)
    /\ tasks' = Append(tasks, Task("transcript", e.new_sessions[e.i], eruns))
    /\ e' = [e EXCEPT !.i = e.i + 1]
    /\ UNCHANGED <<variant, backend, commissions, store, index, now, eruns, hvars, cvars, xvars, yvars>>

\* create_task raises: the exception leaves the handler
EEnqueueFails ==
    /\ e.pc = "enqueue"
    /\ e.i <= Len(e.new_sessions)
    /\ e' = [e EXCEPT !.pc = "done", !.returned = "raised"]
    /\ UNCHANGED <<variant, backend, commissions, store, index, tasks, now, eruns, hvars, cvars, xvars, yvars>>

\* the loop is over: the handler answers with the count
EReturn ==
    /\ e.pc = "enqueue"
    /\ e.i > Len(e.new_sessions)
    /\ e' = [e EXCEPT !.pc = "done", !.returned = "ok"]
    /\ UNCHANGED <<variant, backend, commissions, store, index, tasks, now, eruns, hvars, cvars, xvars, yvars>>

\* time passes
Tick(d) ==
    /\ now + d <= MaxClock
    /\ now' = now + d
    /\ UNCHANGED <<variant, backend, commissions, store, index, tasks, e, eruns, hvars, cvars, xvars, yvars>>

ENext ==
    \/ \E c \in CommissionIds, ds \in RequestDates, df \in RequestDates : EStart(c, ds, df)
    \/ \E found \in SUBSET Sessions : ECrawlReturns(found)
    \/ ECrawlRaises
    \/ EUpdate
    \/ EEnqueue
    \/ EEnqueueFails
    \/ EReturn
    \/ \E d \in {12} : Tick(d)

-----------------------------------------------------------------------------
(* The Senate crawl: Scraper.process_data over SenateScraper.get_sessions  *)
(* Times are ticks; a window option carries the two dates of its text.     *)

Option(v, a, b) == [value |-> v, start_date |-> a, end_date |-> b]
Row(i, t) == [kind |-> "session", id |-> i, start |-> t]
SentinelRow == [kind |-> "sentinel", id |-> 0, start |-> 0]

\* two disjoint windows, the first listed twice and paged, the second empty
SiteDisjoint ==
    [options |-> <<Option("w1", 0, 3), Option("w2", 4, 6), Option("w1", 0, 3)>>,
     pages |-> [v \in {"w1", "w2"} |->
                  IF v = "w1" THEN << <<Row(1, 1), Row(2, 2)>>, <<Row(3, 3)>> >>
                  ELSE << <<SentinelRow>> >>]]

\* two windows that share their boundary day and both list its session
SiteOverlap ==
    [options |-> <<Option("w1", 0, 3), Option("w2", 3, 6)>>,
     pages |-> [v \in {"w1", "w2"} |->
                  IF v = "w1" THEN << <<Row(1, 1)>>, <<Row(2, 3)>> >>
                  ELSE << <<Row(2, 3), Row(3, 5)>> >>]]

\* three windows of three, two and one page
SitePaged ==
    [options |-> <<Option("w1", 0, 1), Option("w2", 2, 3), Option("w3", 4, 6)>>,
     pages |-> [v \in {"w1", "w2", "w3"} |->
                  IF v = "w1" THEN << <<Row(1, 0)>>, <<Row(2, 1)>>, <<Row(3, 1)>> >>
                  ELSE IF v = "w2" THEN << <<Row(4, 2)>>, <<Row(5, 3)>> >>
                  ELSE << <<Row(6, 4), Row(7, 6)>> >>]]

Sites == {SiteDisjoint, SiteOverlap, SitePaged}

Ticks == 0..MaxTick

SenateCommission == CHOOSE c \in CommissionIds : ChamberOf(c) = Senado

CIdle ==
    [pc |-> "idle", start |-> 0, end |-> 0, todo |-> <<>>, value |-> "none",
     page |-> 0, sessions |-> <<>>, i |-> 1, driver |-> "none",
     \* history
     selected |-> <<>>, read |-> <<>>, raw |-> <<>>, fetched |-> {}]

CrawlInit ==
    /\ site \in Sites
    /\ cr = CIdle

\* (start <= end_date) and (end >= start_date)
WindowOverlaps(o, start, end) == start <= o.end_date /\ end >= o.start_date

\* values: the value of every option whose dates overlap the range, in
\* option order
OverlappingValues(options, start, end) ==
    LET keep == SelectSeq(options, LAMBDA o : WindowOverlaps(o, start, end))
    IN [i \in 1..Len(keep) |-> keep[i].value]

\* a window list that keeps every occurrence of a value
WindowList_NoDedup(values) == values

\* list(set(values)): each value once
WindowList(values) ==
    LET firsts == {i \in 1..Len(values) : \A j \in 1..(i - 1) : values[j] # values[i]}
        F[i \in 0..Len(values)] ==
            IF i = 0 THEN <<>>
            ELSE IF i \in firsts THEN Append(F[i - 1], values[i]) ELSE F[i - 1]
    IN F[Len(values)]

RemoveAt(q, k) == [i \in 1..(Len(q) - 1) |-> IF i < k THEN q[i] ELSE q[i + 1]]

\* process_data acquires the driver; get_sessions opens the commission
\* page and builds the list of windows to visit
CStart(start, end) ==
    /\ cr.pc = "idle"
    /\ cr' = [cr EXCEPT !.pc = "select", !.start = start, !.end = end,
                        !.driver = "open",
                        !.todo = WindowList(OverlappingValues(site.options, start, end))]
    /\ UNCHANGED <<variant, backend, commissions, store, index, tasks, hvars, evars, site, xvars, yvars>>

\* for value in list(set(values)): select.select_by_value(value); the set's
\* iteration order is not fixed
CSelect(k) ==
    /\ cr.pc = "select"
    /\ k \in 1..Len(cr.todo)
    /\ cr' = [cr EXCEPT !.pc = "page", !.value = cr.todo[k], !.page = 1,
                        !.todo = RemoveAt(cr.todo, k),
                        !.selected = Append(cr.selected, cr.todo[k])]
    /\ UNCHANGED <<variant, backend, commissions, store, index, tasks, hvars, evars, site, xvars, yvars>>

\* the rows of a result page up to the empty-results sentinel, as sessions
ParseRows(rows, commission_id) ==
    LET stop == {i \in 1..Len(rows) : rows[i].kind = "sentinel"}
        n == IF stop = {} THEN Len(rows)
             ELSE (CHOOSE i \in stop : \A j \in stop : i <= j) - 1
    IN [i \in 1..n |->
          [id |-> rows[i].id, commission_id |-> commission_id, start |-> rows[i].start]]

\* an enabled 'Siguiente' control exists on the shown page
HasNext_StopsEarly(pages, page) == page + 1 < Len(pages)

HasNext(pages, page) == page < Len(pages)

\* one turn of the paging loop: look for the next-page control, read and
\* accumulate the table, then leave the loop or click the control
CPage ==
    /\ cr.pc = "page"
    /\ LET pages == site.pages[cr.value]
           more == HasNext(pages, cr.page)
       IN cr' = [cr EXCEPT
                    !.raw = cr.raw \o ParseRows(pages[cr.page], SenateCommission),
                    !.read = Append(cr.read, <<cr.value, cr.page>>),
                    !.page = IF more THEN cr.page + 1 ELSE cr.page,
                    !.pc = IF more THEN "page" ELSE "select"]
    /\ UNCHANGED <<variant, backend, commissions, store, index, tasks, hvars, evars, site, xvars, yvars>>

\* a WebDriverWait times out: the exception leaves process_data
CTimeout ==
    /\ cr.pc \in {"select", "page", "fetch"}
    /\ cr.pc = "fetch" => cr.i <= Len(cr.sessions)
    /\ cr' = [cr EXCEPT !.pc = "failed"]
    /\ UNCHANGED <<variant, backend, commissions, store, index, tasks, hvars, evars, site, xvars, yvars>>

\* get_sessions has returned: filter the accumulated sessions to the range
CFilter ==
    /\ cr.pc = "select"
    /\ cr.todo = <<>>
    /\ cr' = [cr EXCEPT !.pc = "fetch", !.i = 1,
                        !.sessions = SelectSeq(cr.raw,
                                         LAMBDA s : InRange(s, cr.start, cr.end))]
    /\ UNCHANGED <<variant, backend, commissions, store, index, tasks, hvars, evars, site, xvars, yvars>>

\* get_context and get_attendance for the next kept session
CFetch ==
    /\ cr.pc = "fetch"
    /\ cr.i <= Len(cr.sessions)
    /\ cr' = [cr EXCEPT !.i = cr.i + 1,
                        !.fetched = cr.fetched \cup {cr.sessions[cr.i]}]
    /\ UNCHANGED <<variant, backend, commissions, store, index, tasks, hvars, evars, site, xvars, yvars>>

\* driver.quit(); return sessions
CReturn ==
    /\ cr.pc = "fetch"
    /\ cr.i > Len(cr.sessions)
    /\ cr' = [cr EXCEPT !.pc = "done", !.driver = "quit"]
    /\ UNCHANGED <<variant, backend, commissions, store, index, tasks, hvars, evars, site, xvars, yvars>>

CNext ==
    \/ \E a \in Ticks, b \in Ticks : CStart(a, b)
    \/ \E k \in 1..3 : CSelect(k)
    \/ CPage
    \/ CTimeout
    \/ CFilter
    \/ CFetch
    \/ CReturn

-----------------------------------------------------------------------------
(* Properties of the crawl                                                 *)

\* get_sessions has returned
Discovered == cr.pc \in {"fetch", "done"}

Count(q, x) == Cardinality({i \in 1..Len(q) : q[i] = x})

SessionKey(s) == <<s.commission_id, s.id>>

\* the sessions window v lists, over all its pages
WindowSessions(v) ==
    UNION {Range(ParseRows(site.pages[v][p], SenateCommission)) :
              p \in 1..Len(site.pages[v])}

\* the windows whose dates overlap the requested range
OverlappingWindows ==
    {site.options[i].value : i \in
        {j \in 1..Len(site.options) :
            cr.start <= site.options[j].end_date /\ cr.end >= site.options[j].start_date}}

\* C6: the list discovery returns holds each (commission id, session id) at
\* most once and equals the union of the per-window results within the range.
C6_DiscoveryHasNoDuplicates ==
    cr.pc = "done" =>
        /\ \A i, j \in 1..Len(cr.sessions) :
              SessionKey(cr.sessions[i]) = SessionKey(cr.sessions[j]) => i = j
        /\ Range(cr.sessions) =
              {s \in UNION {WindowSessions(v) : v \in OverlappingWindows} :
                  cr.start <= s.start /\ s.start <= cr.end}

\* C7: process_data keeps exactly the accumulated sessions whose start lies in
\* [start, end], both bounds included, and fetches context and attendance
\* only for kept sessions.
C7_KeepsExactlyTheRange ==
    Discovered =>
        /\ \A s \in Range(cr.raw) :
              Count(cr.sessions, s) =
                  (IF cr.start <= s.start /\ s.start <= cr.end THEN Count(cr.raw, s) ELSE 0)
        /\ Range(cr.sessions) \subseteq Range(cr.raw)
        /\ cr.fetched \subseteq Range(cr.sessions)
        /\ cr.pc = "done" => cr.fetched = Range(cr.sessions)

C7_Witness ==
    /\ cr.pc = "done"
    /\ \E s \in Range(cr.raw) : s.start = cr.end
    /\ \E s \in Range(cr.raw) : s.start = cr.start
    /\ \E s \in Range(cr.raw) : s.start > cr.end
    /\ \E s \in Range(cr.raw) : s \notin cr.fetched
    /\ cr.fetched # {}

\* C8: the Senate crawler selects each window overlapping [start, end]
\* exactly once, duplicate identifiers being visited once, and never selects
\* a window that does not overlap.
C8_OverlappingWindowsOnce ==
    /\ \A i \in 1..Len(cr.selected) :
          /\ cr.selected[i] \in OverlappingWindows
          /\ Count(cr.selected, cr.selected[i]) = 1
    /\ Discovered => \A v \in OverlappingWindows : Count(cr.selected, v) = 1

C8_Witness ==
    /\ Discovered
    /\ Len(cr.selected) = 1
    /\ Count([i \in 1..Len(site.options) |-> site.options[i].value], cr.selected[1]) = 2
    /\ \E i \in 1..Len(site.options) : site.options[i].value \notin OverlappingWindows

\* the rows of the pages of a read log, in the order they were read
RECURSIVE RowsOf(_)
RowsOf(log) ==
    IF log = <<>> THEN <<>>
    ELSE LET last == log[Len(log)] IN
         RowsOf(SubSeq(log, 1, Len(log) - 1))
            \o ParseRows(site.pages[last[1]][last[2]], SenateCommission)

\* C9: for each selected window the paging loop accumulates the rows of every
\* result page exactly once, the last page included, moves on only while a
\* further-page control exists and stops at the page that has none.
C9_EveryPageOnce ==
    /\ \A i \in 1..Len(cr.read) :
          /\ Count(cr.read, cr.read[i]) = 1
          /\ cr.read[i][2] \in 1..Len(site.pages[cr.read[i][1]])
    /\ \A i \in 1..Len(cr.selected) :
          (cr.pc \in {"select", "fetch", "done"}) =>
              \A p \in 1..Len(site.pages[cr.selected[i]]) :
                  Count(cr.read, <<cr.selected[i], p>>) = 1
    /\ \A i, j \in 1..Len(cr.read) :
          (i < j /\ cr.read[i][1] = cr.read[j][1]) => cr.read[i][2] < cr.read[j][2]
    /\ cr.raw = RowsOf(cr.read)

C9_Witness ==
    /\ Discovered
    /\ Len(cr.selected) = 3
    /\ Len(cr.read) = 6
    /\ Len(cr.raw) = 7

-----------------------------------------------------------------------------
(* Properties of the extract handler                                       *)

\* C5: without an explicit finish date the crawler is invoked with
\* end = now - 12 h (and start = the stored last-update when no start is
\* given) and the watermark is then set to exactly that end; with an explicit
\* finish date the watermark is left unchanged.
C5_WatermarkIsCrawlEnd ==
    LET c == e.commission_id IN
    e.pc # "idle" =>
        /\ ~e.finish_arg.given =>
              /\ e.end = DateTime(e.nowAtStart - SafetyMarginHours)
              /\ ~e.start_arg.given => e.start = DateTime(e.lastUpdateAtStart)
              /\ e.pastUpdate => commissions[c].last_update = e.end.t
        /\ e.finish_arg.given => commissions[c].last_update = e.lastUpdateAtStart

C5_Witness ==
    /\ e.pc = "done"
    /\ e.returned = "ok"
    /\ ~e.finish_arg.given
    /\ ~e.start_arg.given
    /\ now > e.nowAtStart
    /\ Len(e.new_sessions) > 0
    /\ commissions[e.commission_id].last_update = e.nowAtStart - SafetyMarginHours
    /\ commissions[e.commission_id].last_update # e.lastUpdateAtStart

-----------------------------------------------------------------------------
(* check_title and the candidate loop of the caption path, called with     *)
(* titles of every shape and sessions of every date and time of day        *)

TitleDays == {"5", "6"}
TitleMonths == {"marzo", "abril"}
TitleTimes == {9, 12, 15}
HalfDayTags == {"none", "am", "pm", "ampm", "pmam"}

\* what a Chamber title carries between the commission name and the date
TagPieces(tag) ==
    CASE tag = "none" -> <<"/">>
      [] tag = "am" -> <<"/", "am", "/">>
      [] tag = "pm" -> <<"/", "pm", "/">>
      [] tag = "ampm" -> <<"/", "am", "/", "pm", "/">>
      [] tag = "pmam" -> <<"/", "pm", "/", "am", "/">>

ChamberTitle(tag, day, month) ==
    <<"Comisión", " ", "Hacienda", " ">> \o TagPieces(tag)
        \o <<" ", day, " ", month, " ", "2024">>

SenateTitle(day, month) ==
    <<"Comisión", " ", "Hacienda", " ", "-", " ", day, " ", "de", " ", month, " ", "2024">>

\* the items of a search response, as their titles in platform order
TitleLists(chamber) ==
    IF chamber = Senado
    THEN {<<SenateTitle(dd, m)>> : dd \in TitleDays, m \in TitleMonths} \cup {<<TSala>>}
    ELSE {<<ChamberTitle(tag, dd, m)>> : tag \in HalfDayTags, dd \in TitleDays, m \in TitleMonths}
         \cup {<<ChamberTitle("pm", dd, "marzo"), ChamberTitle("am", dd, "marzo")>> : dd \in TitleDays}
         \cup {<<ChamberTitle("am", dd, "marzo"), ChamberTitle("pm", dd, "marzo")>> : dd \in TitleDays}
         \cup {<<ChamberTitle("ampm", dd, "marzo"), ChamberTitle("pm", dd, "marzo")>> : dd \in TitleDays}

TqIdle ==
    [pc |-> "idle", chamber |-> Senado, items |-> <<>>, time |-> 0,
     day |-> "5", month |-> "marzo", verdicts |-> <<>>, selected |-> 0]

\* a session (date and time of its start) and the candidates found for it
TitleQueries ==
    UNION {{[pc |-> "ready", chamber |-> ch, items |-> its, time |-> t, day |-> dd,
             month |-> m, verdicts |-> <<>>, selected |-> 0] :
                its \in TitleLists(ch), t \in TitleTimes, dd \in TitleDays, m \in TitleMonths} :
           ch \in {Senado, Camara}}

\* the loop of get_transcription_from_yt over the items: check_title is given
\* the title and session["start"].time(), nothing else of the session
TitleCheck ==
    /\ tq.pc = "ready"
    /\ tq' = [tq EXCEPT
                !.pc = "done",
                !.verdicts = [i \in 1..Len(tq.items) |->
                                 check_title(tq.chamber, tq.items[i], tq.time)],
                !.selected = FirstMatch(tq.chamber,
                                 [i \in 1..Len(tq.items) |-> Video(tq.items[i], i)], tq.time)]
    /\ UNCHANGED <<variant, backend, commissions, store, index, tasks, hvars, evars, cvars,
                   cq, ixlog, disk, dl, yvars>>

QNext == TitleCheck

-----------------------------------------------------------------------------
(* chunk_text on its own: texts of every length up to MaxTokens under       *)
(* every chunk size and overlap, and the 1200-token text under the defaults *)

MaxTokens == 12
MaxChunkSize == 4

\* tokenizer.encode(text): the tokens of a text, each named by its offset
Tokens(n) == [i \in 1..n |-> i - 1]

CqIdle == [pc |-> "idle", n |-> 0, chunk_size |-> ChunkSize, overlap |-> Overlap, out |-> <<>>]

\* calls with 0 <= overlap < chunk_size
ChunkQueries ==
    {q \in {[pc |-> "ready", n |-> n, chunk_size |-> sz, overlap |-> ov, out |-> <<>>] :
                n \in 0..MaxTokens, sz \in 1..MaxChunkSize, ov \in 0..(MaxChunkSize - 1)} :
        q.overlap < q.chunk_size}
    \cup {[pc |-> "ready", n |-> 1200, chunk_size |-> ChunkSize, overlap |-> Overlap,
           out |-> <<>>]}

\* chunks = chunk_text(text, chunk_size, overlap), called with overlap < chunk_size
ChunkApply ==
    /\ cq.pc = "ready"
    /\ cq.overlap < cq.chunk_size
    /\ cq' = [cq EXCEPT !.pc = "done",
                        !.out = chunk_text(Tokens(cq.n), cq.chunk_size, cq.overlap)]
    /\ UNCHANGED <<variant, backend, commissions, store, index, tasks, hvars, evars, cvars,
                   tq, ixlog, disk, dl, yvars>>

KNext == ChunkApply

-----------------------------------------------------------------------------
(* PineconeDatabase.upsert_records called directly, any number of times,   *)
(* on sessions that carry a transcript                                     *)

MaxIndexings == 3

\* lengths, in tokens, of the transcripts indexed: one, two and three chunks
TranscriptLengths == {3, 600, 1000}

\* two sessions of different commissions that carry the same session id
IndexedSessions == {s \in Sessions : s.id = 1}

IxIdle == [s \in IndexedSessions |-> <<>>]

Indexings == LET total[S \in SUBSET IndexedSessions] ==
                     IF S = {} THEN 0
                     ELSE LET s == CHOOSE x \in S : TRUE
                          IN Len(ixlog[s]) + total[S \ {s}]
             IN total[IndexedSessions]

\* vector_db.upsert_records(session): chunk, build the records, upsert every batch
IndexSession(s, n) ==
    /\ Indexings < MaxIndexings
    /\ index' = LET batches == batch(ChunkRecords(WithTranscript(s, Tokens(n))), BatchSize)
                IN UpsertBatches(index, batches, Len(batches))
    /\ ixlog' = [ixlog EXCEPT ![s] = Append(@, n)]
    /\ UNCHANGED <<variant, backend, commissions, store, tasks, hvars, evars, cvars,
                   tq, cq, disk, dl, yvars>>

XNext == \E s \in IndexedSessions, n \in TranscriptLengths : IndexSession(s, n)

-----------------------------------------------------------------------------
(* The download path of the resolver (extraction/videos.py):               *)
(* get_video_url on the chamber's media portal                            *)

MaxChunks == 5
MaxPairChunks == 2
MaxWorkers == 4

\* commission["search_keywords"], as the catalog bootstrap stores them
SearchKeywords(c) == IF c = 1 THEN <<"hacienda">> ELSE <<"educacion", "cultura">>

\* normalize_text: lower case, combining marks dropped
NormalizeText(w) ==
    CASE w = "Hacienda" -> "hacienda"
      [] w = "Educación" -> "educacion"
      [] w = "Cultura" -> "cultura"
      [] w = "Sala" -> "sala"
      [] OTHER -> w

\* a result of the portal search: the words of its text and its link
Article(words, href) == [text |-> words, href |-> href]

\* result lists of the portal for the day of a session, newest first
Portals ==
    { <<>>,
      <<Article(<<"Sala">>, 1)>>,
      <<Article(<<"Hacienda">>, 2), Article(<<"Sala">>, 3), Article(<<"Hacienda">>, 4)>>,
      <<Article(<<"Educación">>, 5), Article(<<"Educación", "Cultura">>, 6)>> }

\* all(normalize_text(term) in normalize_text(item.text) for term in keywords)
MatchesKeywords(item, keywords) ==
    \A i \in 1..Len(keywords) :
        \E j \in 1..Len(item.text) :
            NormalizeText(item.text[j]) = NormalizeText(keywords[i])

FilterResults(results, keywords) ==
    SelectSeq(results, LAMBDA item : MatchesKeywords(item, keywords))

\* a choice that ignores the time of day
PickIndex_AlwaysFirst(results, time) == 1

\* results[-1 if session["start"].time() < dt.time(hour=12, minute=0) else 0],
\* as a position of the sequence
PickIndex(results, time) == IF time < Noon THEN Len(results) ELSE 1

\* SenateVideoProcessor.get_video_url: no <article> within the timeout is
\* VideoUrlNotFoundError; an empty filtered list is indexed all the same
SenateGetVideoUrl(results, keywords, time) ==
    IF Len(results) = 0 THEN [outcome |-> "VideoUrlNotFoundError", href |-> 0]
    ELSE LET matching == FilterResults(results, keywords) IN
         IF Len(matching) = 0 THEN [outcome |-> "IndexError", href |-> 0]
         ELSE [outcome |-> "url", href |-> matching[PickIndex(matching, time)].href]

\* ChamberOfDeputiesVideoProcessor.get_video_url: find_elements returns a
\* list, possibly empty, which is filtered and indexed
ChamberGetVideoUrl(results, keywords, time) ==
    LET matching == FilterResults(results, keywords) IN
    IF Len(matching) = 0 THEN [outcome |-> "IndexError", href |-> 0]
    ELSE [outcome |-> "url", href |-> matching[PickIndex(matching, time)].href]

get_video_url(chamber, results, keywords, time) ==
    IF chamber = Senado THEN SenateGetVideoUrl(results, keywords, time)
                        ELSE ChamberGetVideoUrl(results, keywords, time)

-----------------------------------------------------------------------------
(* The download path: get_transcription, its temporary files and its       *)
(* pool of transcription workers                                           *)

\* f"{output_path}/{session_id}.mp4", f"{output_path}/{session_id}.mp3" and
\* f"{base}_part_%03d.mp3": the session id is the only part that varies
File(session_id, part, ext) == [name |-> session_id, part |-> part, ext |-> ext]
VideoFile(session_id) == File(session_id, -1, "mp4")
AudioFile(session_id) == File(session_id, -1, "mp3")
ChunkFile(session_id, i) == File(session_id, i, "mp3")

\* the text the transcription service returns for chunk i of an audio
Words == <<"uno", "dos", "tres", "cuatro", "cinco", "seis", "siete", "ocho">>
WordOf(i) == Words[i + 1]

WithField(session, key, value) ==
    [k \in DOMAIN session \cup {key} |-> IF k = key THEN value ELSE session[k]]

NoDownloadSession == [id |-> 0, commission_id |-> 0, start |-> 0, finish |-> 0]

DIdle ==
    [pc |-> "idle", session |-> NoDownloadSession, portal |-> <<>>, error |-> "none",
     video_url |-> 0, chunks |-> <<>>, st |-> <<>>, next |-> 1, completed |-> <<>>,
     touched |-> {}]

\* two resolutions run side by side
Pair == Cardinality(DOMAIN dl) > 1

\* the sessions handed to resolution r: any session, morning, noon or
\* afternoon; side by side, session 1 of commission 1 next to another session
DownloadSessions(r) ==
    IF ~Pair
    THEN {[id |-> 1, commission_id |-> c, start |-> t, finish |-> t + 1] :
              c \in CommissionIds, t \in TitleTimes}
    ELSE IF r = 1
    THEN {[id |-> 1, commission_id |-> 1, start |-> 9, finish |-> 10]}
    ELSE {[id |-> 1, commission_id |-> 2, start |-> 9, finish |-> 10],
          [id |-> 2, commission_id |-> 1, start |-> 9, finish |-> 10]}

DownloadPortals ==
    IF ~Pair THEN Portals
    ELSE {p \in Portals : Len(p) >= 2}

ChunkCounts == IF ~Pair THEN 1..MaxChunks ELSE 1..MaxPairChunks

DInFlight(r) == dl[r].pc \in {"download", "convert", "split", "pool", "draining"}

Touch(r, files) == [dl[r] EXCEPT !.touched = @ \cup files]

\* video_url = self.get_video_url(session)
DStart(r, s, results) ==
    /\ r \in DOMAIN dl
    /\ s \in DownloadSessions(r)
    /\ results \in DownloadPortals
    /\ dl[r].pc = "idle"
    /\ \A r2 \in DOMAIN dl \ {r} :
          <<dl[r2].session.commission_id, dl[r2].session.id>> # <<s.commission_id, s.id>>
    /\ LET u == get_video_url(ChamberOf(s.commission_id), results,
                              SearchKeywords(s.commission_id), TimeOfDay(s.start))
       IN dl' = [dl EXCEPT ![r] =
                   [@ EXCEPT !.session = s, !.portal = results,
                             !.pc = IF u.outcome = "url" THEN "download" ELSE "failed",
                             !.error = IF u.outcome = "url" THEN "none" ELSE u.outcome,
                             !.video_url = u.href]]
    /\ UNCHANGED <<variant, backend, commissions, store, index, tasks, hvars, evars, cvars,
                   tq, cq, ixlog, disk, yvars>>

\* download_audio: aria2c writes video_file
DDownloadOk(r) ==
    /\ r \in DOMAIN dl
    /\ dl[r].pc = "download"
    /\ disk' = disk \cup {VideoFile(dl[r].session.id)}
    /\ dl' = [dl EXCEPT ![r] = [Touch(r, {VideoFile(dl[r].session.id)}) EXCEPT !.pc = "convert"]]
    /\ UNCHANGED <<variant, backend, commissions, store, index, tasks, hvars, evars, cvars,
                   tq, cq, ixlog, yvars>>

\* download_audio: CalledProcessError raises VideoNotFoundError; a missing
\* aria2c returns None, on which split_audio raises TypeError
DDownloadFails(r, err) ==
    /\ r \in DOMAIN dl
    /\ dl[r].pc = "download"
    /\ dl' = [dl EXCEPT ![r] = [@ EXCEPT !.pc = "failed", !.error = err]]
    /\ UNCHANGED <<variant, backend, commissions, store, index, tasks, hvars, evars, cvars,
                   tq, cq, ixlog, disk, yvars>>

\* download_audio: ffmpeg writes audio_file, the video is removed
DConvertOk(r) ==
    /\ r \in DOMAIN dl
    /\ dl[r].pc = "convert"
    /\ disk' = (disk \cup {AudioFile(dl[r].session.id)}) \ {VideoFile(dl[r].session.id)}
    /\ dl' = [dl EXCEPT ![r] =
                [Touch(r, {AudioFile(dl[r].session.id), VideoFile(dl[r].session.id)})
                    EXCEPT !.pc = "split"]]
    /\ UNCHANGED <<variant, backend, commissions, store, index, tasks, hvars, evars, cvars,
                   tq, cq, ixlog, yvars>>

\* download_audio: the conversion fails, None is returned with the video left
\* in place, and split_audio(None) raises TypeError
DConvertFails(r) ==
    /\ r \in DOMAIN dl
    /\ dl[r].pc = "convert"
    /\ dl' = [dl EXCEPT ![r] = [@ EXCEPT !.pc = "failed", !.error = "TypeError"]]
    /\ UNCHANGED <<variant, backend, commissions, store, index, tasks, hvars, evars, cvars,
                   tq, cq, ixlog, disk, yvars>>

\* the while loop of split_audio: the files output_pattern % 0, 1, ... that
\* exist, up to the first that does not
RECURSIVE ExistingChunks(_, _, _)
ExistingChunks(files, session_id, i) ==
    IF ChunkFile(session_id, i) \in files
    THEN <<ChunkFile(session_id, i)>> \o ExistingChunks(files, session_id, i + 1)
    ELSE <<>>

\* split_audio: ffmpeg writes n chunk files, the loop lists them, the full
\* audio is removed; then get_transcription submits every chunk to the pool
DSplitOk(r, n) ==
    /\ r \in DOMAIN dl
    /\ n \in ChunkCounts
    /\ dl[r].pc = "split"
    /\ LET id == dl[r].session.id
           written == {ChunkFile(id, i) : i \in 0..(n - 1)}
           output_files == ExistingChunks(disk \cup written, id, 0)
       IN /\ disk' = (disk \cup written) \ {AudioFile(id)}
          /\ dl' = [dl EXCEPT ![r] =
                      [Touch(r, written \cup Range(output_files) \cup {AudioFile(id)})
                          EXCEPT !.pc = "pool",
                                 !.chunks = output_files,
                                 !.st = [i \in 1..Len(output_files) |-> "queued"],
                                 !.next = 1]]
    /\ UNCHANGED <<variant, backend, commissions, store, index, tasks, hvars, evars, cvars,
                   tq, cq, ixlog, yvars>>

\* split_audio: subprocess.run(command, check=True) raises
DSplitFails(r) ==
    /\ r \in DOMAIN dl
    /\ dl[r].pc = "split"
    /\ dl' = [dl EXCEPT ![r] = [@ EXCEPT !.pc = "failed", !.error = "CalledProcessError"]]
    /\ UNCHANGED <<variant, backend, commissions, store, index, tasks, hvars, evars, cvars,
                   tq, cq, ixlog, disk, yvars>>

Running(r) == {i \in 1..Len(dl[r].st) : dl[r].st[i] = "running"}

\* ThreadPoolExecutor(max_workers=4): a worker is free
PoolHasFreeWorker(r) == Cardinality(Running(r)) < MaxWorkers

\* a free worker takes the next chunk of the queue and opens its file
WStart(r, i) ==
    /\ r \in DOMAIN dl
    /\ dl[r].pc = "pool"
    /\ i \in 1..Len(dl[r].st)
    /\ dl[r].st[i] = "queued"
    /\ \A j \in 1..(i - 1) : dl[r].st[j] # "queued"
    /\ PoolHasFreeWorker(r)
    /\ dl' = [dl EXCEPT ![r] =
                [Touch(r, {dl[r].chunks[i]})
                    EXCEPT !.st[i] = IF dl[r].chunks[i] \in disk THEN "running" ELSE "failed"]]
    /\ UNCHANGED <<variant, backend, commissions, store, index, tasks, hvars, evars, cvars,
                   tq, cq, ixlog, disk, yvars>>

\* transcribe_audio returns: the chunk file is removed
WFinishOk(r, i) ==
    /\ r \in DOMAIN dl
    /\ dl[r].pc \in {"pool", "draining"}
    /\ i \in 1..Len(dl[r].st)
    /\ dl[r].st[i] = "running"
    /\ disk' = disk \ {dl[r].chunks[i]}
    /\ dl' = [dl EXCEPT ![r] =
                [@ EXCEPT !.st[i] = IF dl[r].chunks[i] \in disk THEN "ok" ELSE "failed",
                          !.completed = Append(@, i)]]
    /\ UNCHANGED <<variant, backend, commissions, store, index, tasks, hvars, evars, cvars,
                   tq, cq, ixlog, yvars>>

\* client.audio.transcriptions.create raises: the chunk file stays
WFails(r, i) ==
    /\ r \in DOMAIN dl
    /\ dl[r].pc \in {"pool", "draining"}
    /\ i \in 1..Len(dl[r].st)
    /\ dl[r].st[i] = "running"
    /\ dl' = [dl EXCEPT ![r] = [@ EXCEPT !.st[i] = "failed"]]
    /\ UNCHANGED <<variant, backend, commissions, store, index, tasks, hvars, evars, cvars,
                   tq, cq, ixlog, disk, yvars>>

\* a resolver that takes the exception of a worker for a result
FutureRaises_Never(status) == FALSE

\* future.result() re-raises the exception of the worker
FutureRaises(status) == status = "failed"

\* list(executor.map(...)): the result of the next chunk, in chunk order
DGather(r) ==
    /\ r \in DOMAIN dl
    /\ dl[r].pc = "pool"
    /\ dl[r].next <= Len(dl[r].st)
    /\ dl[r].st[dl[r].next] \in {"ok", "failed"}
    /\ ~FutureRaises(dl[r].st[dl[r].next])
    /\ dl' = [dl EXCEPT ![r] = [@ EXCEPT !.next = @ + 1]]
    /\ UNCHANGED <<variant, backend, commissions, store, index, tasks, hvars, evars, cvars,
                   tq, cq, ixlog, disk, yvars>>

\* the result of the next chunk raises: the chunks still queued are
\* cancelled and the executor is shut down
DGatherRaises(r) ==
    /\ r \in DOMAIN dl
    /\ dl[r].pc = "pool"
    /\ dl[r].next <= Len(dl[r].st)
    /\ FutureRaises(dl[r].st[dl[r].next])
    /\ dl' = [dl EXCEPT ![r] =
                [@ EXCEPT !.pc = "draining",
                          !.st = [i \in 1..Len(dl[r].st) |->
                                     IF dl[r].st[i] = "queued" THEN "cancelled" ELSE dl[r].st[i]]]]
    /\ UNCHANGED <<variant, backend, commissions, store, index, tasks, hvars, evars, cvars,
                   tq, cq, ixlog, disk, yvars>>

\* shutdown(wait=True) returns once no worker runs; the exception leaves
\* get_transcription
DDrained(r) ==
    /\ r \in DOMAIN dl
    /\ dl[r].pc = "draining"
    /\ Running(r) = {}
    /\ dl' = [dl EXCEPT ![r] = [@ EXCEPT !.pc = "failed", !.error = "TranscriptionError"]]
    /\ UNCHANGED <<variant, backend, commissions, store, index, tasks, hvars, evars, cvars,
                   tq, cq, ixlog, disk, yvars>>

\* results in the order the workers finished
MapResults_AsCompleted(results, completed) ==
    [k \in 1..Len(completed) |-> results[completed[k]]]

\* executor.map yields the results in the order of its input
MapResults(results, completed) == results

\* session["transcript"] = " ".join([x.text for x in transcripts]);
\* session["video_url"] = video_url
DJoin(r) ==
    /\ r \in DOMAIN dl
    /\ dl[r].pc = "pool"
    /\ dl[r].next > Len(dl[r].st)
    /\ Running(r) = {}
    /\ LET results == [i \in 1..Len(dl[r].st) |->
                          [text |-> WordOf(dl[r].chunks[i].part), ok |-> dl[r].st[i] = "ok"]]
           transcripts == SelectSeq(MapResults(results, dl[r].completed), LAMBDA x : x.ok)
           texts == [k \in 1..Len(transcripts) |-> transcripts[k].text]
       IN dl' = [dl EXCEPT ![r] =
                   [@ EXCEPT !.pc = "done",
                             !.session = WithField(WithField(@, "transcript", JoinSpace(texts)),
                                                   "video_url", dl[r].video_url)]]
    /\ UNCHANGED <<variant, backend, commissions, store, index, tasks, hvars, evars, cvars,
                   tq, cq, ixlog, disk, yvars>>

\* the process dies in the middle of a resolution: its threads and their
\* results are gone, the files stay
DCrash(r) ==
    /\ r \in DOMAIN dl
    /\ DInFlight(r)
    /\ dl' = [dl EXCEPT ![r] = [@ EXCEPT !.pc = "crashed", !.next = 1, !.completed = <<>>]]
    /\ UNCHANGED <<variant, backend, commissions, store, index, tasks, hvars, evars, cvars,
                   tq, cq, ixlog, disk, yvars>>

ResolutionIds == {1, 2}

AllDownloadSessions ==
    {[id |-> i, commission_id |-> c, start |-> t, finish |-> t + 1] :
        i \in SessionIds, c \in CommissionIds, t \in TitleTimes}

DNext ==
    \E r \in ResolutionIds :
        \/ \E s \in AllDownloadSessions, results \in Portals : DStart(r, s, results)
        \/ DDownloadOk(r)
        \/ \E err \in {"VideoNotFoundError", "TypeError"} : DDownloadFails(r, err)
        \/ DConvertOk(r)
        \/ DConvertFails(r)
        \/ \E n \in 1..MaxChunks : DSplitOk(r, n)
        \/ DSplitFails(r)
        \/ \E i \in 1..MaxChunks : WStart(r, i)
        \/ \E i \in 1..MaxChunks : WFinishOk(r, i)
        \/ \E i \in 1..MaxChunks : WFails(r, i)
        \/ DGather(r)
        \/ DGatherRaises(r)
        \/ DDrained(r)
        \/ DJoin(r)
        \/ DCrash(r)

-----------------------------------------------------------------------------
(* batch on its own: sequences of every length up to MaxRecords under       *)
(* every size up to MaxBatch, and 97 records under the size of the index    *)

MaxRecords == 12
MaxBatch == 5

Records(n) == [i \in 1..n |-> i]

BqIdle == [pc |-> "idle", n |-> 0, size |-> BatchSize, out |-> <<>>]

BatchQueries ==
    {[pc |-> "ready", n |-> n, size |-> sz, out |-> <<>>] :
        n \in 0..MaxRecords, sz \in 1..MaxBatch}
    \cup {[pc |-> "ready", n |-> 97, size |-> BatchSize, out |-> <<>>]}

\* list(batch(iterable, size))
BatchApply ==
    /\ bq.pc = "ready"
    /\ bq' = [bq EXCEPT !.pc = "done", !.out = batch(Records(bq.n), bq.size)]
    /\ UNCHANGED <<variant, backend, commissions, store, index, tasks, hvars, evars, cvars,
                   xvars, lq, mq>>

BNext == BatchApply

-----------------------------------------------------------------------------
(* chunk_text, one turn of its while loop at a time                        *)

LqIdle ==
    [pc |-> "idle", n |-> 0, chunk_size |-> ChunkSize, overlap |-> Overlap,
     start |-> 0, chunks |-> <<>>]

\* calls with 0 <= overlap < chunk_size: start = 0, chunks = []
LoopQueries ==
    {q \in {[pc |-> "loop", n |-> n, chunk_size |-> sz, overlap |-> ov,
             start |-> 0, chunks |-> <<>>] :
                n \in 0..MaxTokens, sz \in 1..MaxChunkSize, ov \in 0..(MaxChunkSize - 1)} :
        q.overlap < q.chunk_size}
    \cup {[pc |-> "loop", n |-> 1200, chunk_size |-> ChunkSize, overlap |-> Overlap,
           start |-> 0, chunks |-> <<>>]}

\* a loop that steps by the whole chunk size
LoopStride_NoOverlap(chunk_size, overlap) == chunk_size

\* start += chunk_size - overlap
LoopStride(chunk_size, overlap) == chunk_size - overlap

\* while start < len(tokens): one turn
LoopTurn ==
    /\ lq.pc = "loop"
    /\ lq.start < lq.n
    /\ lq' = [lq EXCEPT
                !.chunks = Append(@, SubSeq(Tokens(lq.n), lq.start + 1,
                                            Min(lq.start + lq.chunk_size, lq.n))),
                !.start = @ + LoopStride(lq.chunk_size, lq.overlap)]
    /\ UNCHANGED <<variant, backend, commissions, store, index, tasks, hvars, evars, cvars,
                   xvars, bq, mq>>

\* the loop condition fails: return chunks
LoopReturn ==
    /\ lq.pc = "loop"
    /\ ~(lq.start < lq.n)
    /\ lq' = [lq EXCEPT !.pc = "done"]
    /\ UNCHANGED <<variant, backend, commissions, store, index, tasks, hvars, evars, cvars,
                   xvars, bq, mq>>

LNext == LoopTurn \/ LoopReturn

-----------------------------------------------------------------------------
(* The Chamber of Deputies crawl: ChamberOfDeputiesScraper.get_sessions.   *)
(* Instants are hours on a calendar of 12 months of 31 days; years are     *)
(* numbered from 1.                                                        *)

MaxYears == 2

Instant(y, m, dd, hh) == ((y * 12 + (m - 1)) * 31 + (dd - 1)) * 24 + hh
YearOf(t) == t \div (12 * 31 * 24)
MonthOf(t) == ((t \div (31 * 24)) % 12) + 1

Max(a, b) == IF a > b THEN a ELSE b

\* hours by which the clock of the host is ahead of TZ (America/Santiago):
\* a host in TZ, a host in UTC
HostOffsets == {0, 3}

\* naive.astimezone(TZ): the naive datetime is read in the zone of the host
AsTZ(naive, host) == naive - host

\* range(max(start, Jan 1 of year).month, min(end, Dec 31 of year).month + 1)
ChamberMonths(start, end, host, year) ==
    LET lo == MonthOf(Max(start, AsTZ(Instant(year, 1, 1, 0), host)))
        hi == MonthOf(Min(end, AsTZ(Instant(year, 12, 31, 0), host)))
    IN [i \in 1..(IF hi >= lo THEN hi - lo + 1 ELSE 0) |-> <<year, lo + i - 1>>]

\* for year in range(start.year, end.year + 1): for month in range(...)
RECURSIVE ChamberWindowsFrom(_, _, _, _)
ChamberWindowsFrom(start, end, host, year) ==
    IF year > YearOf(end) THEN <<>>
    ELSE ChamberMonths(start, end, host, year)
            \o ChamberWindowsFrom(start, end, host, year + 1)

ChamberWindows(start, end, host) == ChamberWindowsFrom(start, end, host, YearOf(start))

\* a row of the result table: its number of cells, the link of cell 10
\* ("ok", "noid": no prmIdSesion in the href, "none": no <a>), the text of
\* the date cell and the hours of the time cells (-1: not a time)
CRow(id, day, st, et) ==
    [cells |-> 11, link |-> "ok", id |-> id, date |-> "ok", day |-> day,
     start_time |-> st, end_time |-> et]

\* the table of each month, the same every year
ChamberRows(month) ==
    CASE month = 1 -> <<CRow(1, 5, 10, 11)>>
      [] month = 2 -> <<CRow(2, 5, 10, 11), [CRow(3, 6, 10, 11) EXCEPT !.date = "bad"]>>
      [] month = 3 -> <<CRow(4, 5, 10, 11), [CRow(5, 5, 12, 13) EXCEPT !.link = "none"],
                        CRow(6, 6, 15, 16)>>
      [] month = 12 -> <<CRow(7, 5, 22, 1)>>
      [] OTHER -> <<>>

\* the body of the row loop: the exception it ends with, "skip" for the
\* NoSuchElementException the loop catches, or the session it appends
ChamberParseRow(row, year, month, commission_id, host) ==
    IF row.cells < 11 THEN [outcome |-> "IndexError", session |-> <<>>]
    ELSE IF row.link = "none" THEN [outcome |-> "skip", session |-> <<>>]
    ELSE IF row.link = "noid" THEN [outcome |-> "AttributeError", session |-> <<>>]
    ELSE IF row.date # "ok" \/ row.start_time < 0 \/ row.end_time < 0
         THEN [outcome |-> "ValueError", session |-> <<>>]
    ELSE [outcome |-> "session",
          session |-> [id |-> row.id, commission_id |-> commission_id,
                       start |-> AsTZ(Instant(year, month, row.day, row.start_time), host),
                       finish |-> AsTZ(Instant(year, month, row.day, row.end_time), host)]]

ChamberCommission == CHOOSE c \in CommissionIds : ChamberOf(c) = Camara

MIdle ==
    [pc |-> "idle", start |-> 0, end |-> 0, host |-> 0, todo |-> <<>>,
     selected |-> <<>>, sessions |-> <<>>, error |-> "none"]

\* the bounds of a query: the first hour or the last noon of a month
QueryInstants ==
    {Instant(y, m, 1, 0) : y \in 1..MaxYears, m \in {1, 3, 12}}
    \cup {Instant(y, m, 31, 12) : y \in 1..MaxYears, m \in {1, 3, 12}}

\* get_sessions(driver, commission_id, start, end) is called
MStart(start, end, host) ==
    /\ mq.pc = "idle"
    /\ start <= end
    /\ mq' = [mq EXCEPT !.pc = "month", !.start = start, !.end = end, !.host = host,
                        !.todo = ChamberWindows(start, end, host)]
    /\ UNCHANGED <<variant, backend, commissions, store, index, tasks, hvars, evars, cvars,
                   xvars, bq, lq>>

\* one month: select the year and the month, read the rows of the table
MMonth ==
    /\ mq.pc = "month"
    /\ mq.todo # <<>>
    /\ LET w == Head(mq.todo)
           rows == ChamberRows(w[2])
           outs == [i \in 1..Len(rows) |->
                      ChamberParseRow(rows[i], w[1], w[2], ChamberCommission, mq.host)]
           raising == {i \in 1..Len(outs) : outs[i].outcome \notin {"session", "skip"}}
           kept == SelectSeq(outs, LAMBDA o : o.outcome = "session")
       IN mq' = IF raising = {}
                THEN [mq EXCEPT !.todo = Tail(@), !.selected = Append(@, w),
                                !.sessions = @ \o [i \in 1..Len(kept) |-> kept[i].session]]
                ELSE [mq EXCEPT !.pc = "failed", !.selected = Append(@, w),
                                !.error = outs[CHOOSE i \in raising :
                                                  \A j \in raising : i <= j].outcome]
    /\ UNCHANGED <<variant, backend, commissions, store, index, tasks, hvars, evars, cvars,
                   xvars, bq, lq>>

\* return sessions
MReturn ==
    /\ mq.pc = "month"
    /\ mq.todo = <<>>
    /\ mq' = [mq EXCEPT !.pc = "done"]
    /\ UNCHANGED <<variant, backend, commissions, store, index, tasks, hvars, evars, cvars,
                   xvars, bq, lq>>

MNext ==
    \/ \E a \in QueryInstants, b \in QueryInstants, host \in HostOffsets : MStart(a, b, host)
    \/ MMonth
    \/ MReturn

-----------------------------------------------------------------------------
(* Specifications *)

\* everything of the handlers and the crawler at rest
Quiet ==
    /\ variant = "api"
    /\ backend = "gcloud"
    /\ commissions = [c \in CommissionIds |-> CommissionDoc(c)]
    /\ store = <<>>
    /\ index = <<>>
    /\ tasks = <<>>
    /\ h = Idle
    /\ g = NewRun
    /\ runs = 0
    /\ ExtractInit
    /\ site = SiteDisjoint
    /\ cr = CIdle

\* no pure function called, nothing indexed directly, no download running
XInit ==
    /\ tq = TqIdle
    /\ cq = CqIdle
    /\ ixlog = IxIdle
    /\ disk = {}
    /\ dl = [r \in {1} |-> DIdle]

\* no further function called, no Chamber crawl running
YInit ==
    /\ bq = BqIdle
    /\ lq = LqIdle
    /\ mq = MIdle

\* the transcript handler, with the configuration endpoint beside it
Init == HandlersInit /\ ExtractInit /\ CrawlInit /\ XInit /\ YInit

\* the handlers never read the site of the crawler: one site stands for all
InitHandlers == HandlersInit /\ ExtractInit /\ site = SiteDisjoint /\ cr = CIdle /\ XInit /\ YInit

SpecTranscript == InitHandlers /\ [][TNext]_vars

\* the extract handler; the catalog bootstrap (FirestoreDatabase.init) set
\* last_update to the clock of its hour 0: it ran a day ago or just now
BootstrapAges == {0, 24}

InitExtract ==
    /\ HandlersInit
    /\ now \in BootstrapAges /\ e = EIdle /\ eruns = 0
    /\ site = SiteDisjoint /\ cr = CIdle
    /\ XInit /\ YInit

SpecExtract == InitExtract /\ [][ENext]_vars

\* one crawl of the Senate site
SpecCrawl == Init /\ [][CNext]_vars

\* check_title and the candidate loop, on every title and session
InitTitle ==
    /\ Quiet
    /\ tq \in TitleQueries
    /\ cq = CqIdle /\ ixlog = IxIdle /\ disk = {} /\ dl = [r \in {1} |-> DIdle]
    /\ YInit

SpecTitle == InitTitle /\ [][QNext]_vars

\* chunk_text, on every text, chunk size and overlap
InitChunk ==
    /\ Quiet
    /\ cq \in ChunkQueries
    /\ tq = TqIdle /\ ixlog = IxIdle /\ disk = {} /\ dl = [r \in {1} |-> DIdle]
    /\ YInit

SpecChunk == InitChunk /\ [][KNext]_vars

\* the retrieval index, indexed and re-indexed
InitIndex == Quiet /\ XInit /\ YInit

SpecIndex == InitIndex /\ [][XNext]_vars

\* one resolution on the download path
InitDownload == Quiet /\ XInit /\ YInit

SpecDownload == InitDownload /\ [][DNext]_vars

\* two resolutions on the download path, side by side
InitPair ==
    /\ Quiet
    /\ tq = TqIdle /\ cq = CqIdle /\ ixlog = IxIdle /\ disk = {}
    /\ dl = [r \in {1, 2} |-> DIdle]
    /\ YInit

SpecPair == InitPair /\ [][DNext]_vars

\* batch, on every sequence and size
InitBatch == Quiet /\ XInit /\ bq \in BatchQueries /\ lq = LqIdle /\ mq = MIdle

SpecBatch == InitBatch /\ [][BNext]_vars

\* the loop of chunk_text, on every text, chunk size and overlap; the loop
\* runs on: a function that is called runs until it returns
InitLoop == Quiet /\ XInit /\ bq = BqIdle /\ lq \in LoopQueries /\ mq = MIdle

SpecLoop == InitLoop /\ [][LNext]_vars /\ WF_vars(LNext)

\* one crawl of the Chamber site
InitChamber == Quiet /\ XInit /\ YInit

SpecChamber == InitChamber /\ [][MNext]_vars


-----------------------------------------------------------------------------
(* Properties of the transcript handler                                    *)

\* the session of the current run is in the document store
Stored(session) == \E i \in 1..Len(store) : store[i].doc = session

\* tasks enqueued by the current run
RunTasks == {i \in 1..Len(tasks) : tasks[i].run = runs}

\* the search gave the resolver nothing to accept
NoCandidate(response, session) ==
    \/ response.totalResults = 0
    \/ \A i \in 1..Len(response.items) :
          ~check_title(ChamberOf(session.commission_id), response.items[i].title,
                       TimeOfDay(session.start))

\* C1: when the resolver fails with media-not-found, the handler still
\* persists the session, without a transcript field, and returns normally.
C1_NotFoundStillPersisted ==
    (h.pc = "done" /\ g.outcome = "notfound") =>
        /\ g.returned = "ok"
        /\ "transcript" \notin DOMAIN h.session
        /\ g.persisted
        /\ Stored(h.session)

\* C2: the store never receives a transcribed session whose indexing step
\* has not been executed: the upsert comes before add_session.
C2_IndexedBeforePersisted ==
    (g.outcome = "transcribed" /\ g.persisted) => g.indexed

\* C3: when the index upsert fails for a transcribed session, the failure
\* is propagated and the session record is still persisted.
C3_UpsertFailureStillPersists ==
    (h.pc = "done" /\ g.outcome = "transcribed" /\ g.upsertFailed) =>
        /\ g.returned = "raised"
        /\ g.persisted
        /\ Stored(h.session)

\* C4: summarize and mindmap tasks are enqueued by a run only if the
\* commission's automatic-processing flag was true during that run and the
\* resolution produced a transcript (never after media-not-found).
C4_DispatchOnlyWhenEnabled ==
    \A i \in RunTasks :
        tasks[i].endpoint \in {"summarize", "mindmap"} =>
            /\ g.flagSeen
            /\ g.outcome = "transcribed"
            /\ tasks[i].session_id = h.session.id

C4_Witness ==
    /\ h.pc = "done"
    /\ g.outcome = "transcribed"
    /\ \E i \in RunTasks : tasks[i].endpoint = "summarize"
    /\ \E i \in RunTasks : tasks[i].endpoint = "mindmap"

\* C10: the caption path fails with media-not-found when the search returns
\* zero results and when no candidate title matches the chamber's pattern;
\* the session is then left without a transcript.
C10_NoCandidateIsNotFound ==
    (g.outcome # "none" /\ NoCandidate(g.response, h.session)) =>
        /\ g.outcome = "notfound"
        /\ "transcript" \notin DOMAIN h.session

C10_Witness ==
    /\ g.outcome = "notfound"
    /\ g.response.totalResults > 0
    /\ Len(g.response.items) > 0
    /\ "transcript" \notin DOMAIN h.session

-----------------------------------------------------------------------------
(* Properties of the download path                                         *)

Resolutions == DOMAIN dl

\* the results of the portal that contain every keyword of the commission
Matching(r) == FilterResults(dl[r].portal, SearchKeywords(dl[r].session.commission_id))

MediaNotFound == {"VideoUrlNotFoundError", "VideoNotFoundError"}

\* C11: whenever no result of the portal matches the session (no result at
\* all, or none that contains all the keywords), get_video_url fails, and
\* with the media-not-found error, no other
C11_NoMatchIsMediaNotFound ==
    \A r \in Resolutions :
        (dl[r].pc # "idle" /\ Len(Matching(r)) = 0)
            => (dl[r].pc = "failed" /\ dl[r].error \in MediaNotFound)

\* C14: among the matching results the last is taken when the session starts
\* strictly before 12:00 and the first otherwise, 12:00 included
C14_LastBeforeNoonElseFirst ==
    \A r \in Resolutions :
        (dl[r].pc # "idle" /\ Len(Matching(r)) > 0)
            => /\ dl[r].error \notin {"IndexError", "VideoUrlNotFoundError"}
               /\ dl[r].video_url =
                     IF dl[r].session.start < 12
                     THEN Matching(r)[Len(Matching(r))].href
                     ELSE Matching(r)[1].href

C14_Witness ==
    \E r \in Resolutions :
        /\ dl[r].pc = "download"
        /\ dl[r].session.start = 12
        /\ Len(Matching(r)) >= 2
        /\ Matching(r)[1].href # Matching(r)[Len(Matching(r))].href
        /\ dl[r].video_url = Matching(r)[1].href

\* the chunk texts in chunk-index order
TextsInOrder(r) == [i \in 1..Len(dl[r].chunks) |-> WordOf(i - 1)]

\* C15: never more than 4 chunks are being transcribed at once, and whatever
\* the order in which the workers finish, the transcript is the chunk texts
\* joined by one space in chunk-index order
C15_PoolOfFourJoinsInOrder ==
    \A r \in Resolutions :
        /\ Cardinality(Running(r)) <= 4
        /\ dl[r].pc = "done" => dl[r].session.transcript = JoinSpace(TextsInOrder(r))

C15_Witness ==
    \E r \in Resolutions :
        /\ dl[r].pc = "done"
        /\ Len(dl[r].chunks) > 4
        /\ dl[r].completed[1] # 1
        /\ dl[r].session.transcript = JoinSpace(TextsInOrder(r))

\* C16: once the transcription of a chunk has failed, the resolution does
\* not complete: the session gets no transcript and no video_url
C16_NoPartialTranscript ==
    \A r \in Resolutions :
        (\E i \in 1..Len(dl[r].st) : dl[r].st[i] = "failed")
            => /\ dl[r].pc # "done"
               /\ "transcript" \notin DOMAIN dl[r].session
               /\ "video_url" \notin DOMAIN dl[r].session

C16_Witness ==
    \E r \in Resolutions :
        /\ dl[r].pc = "failed"
        /\ dl[r].error = "TranscriptionError"
        /\ \E i, j \in 1..Len(dl[r].st) : dl[r].st[i] = "failed" /\ dl[r].st[j] = "ok"
        /\ "transcript" \notin DOMAIN dl[r].session

Videos == {f \in disk : f.ext = "mp4"}
Audios == {f \in disk : f.ext = "mp3" /\ f.part = -1}
ChunksOnDisk == {f \in disk : f.ext = "mp3" /\ f.part >= 0}

\* C17: wherever a resolution stops, by a crash or by the failure of a step,
\* at most one video, one audio and one chunk file are left on disk
C17_AtMostOneFilePerStage ==
    (\E r \in Resolutions : dl[r].pc \in {"failed", "crashed"})
        => /\ Cardinality(Videos) <= 1
           /\ Cardinality(Audios) <= 1
           /\ Cardinality(ChunksOnDisk) <= 1

\* C18: two resolutions of different sessions never write, read or delete
\* the same temporary file
C18_DisjointTemporaryFiles ==
    \A r1, r2 \in Resolutions :
        r1 # r2 => dl[r1].touched \cap dl[r2].touched = {}

-----------------------------------------------------------------------------
(* Properties of check_title                                               *)

Contains(title, piece) == \E i \in 1..Len(title) : title[i] = piece

KeepToken(time) == IF time < 12 THEN "am" ELSE "pm"
ExcludeToken(time) == IF time < 12 THEN "pm" ELSE "am"

\* C12: a title of the Chamber is accepted only if it contains the token of
\* the half of the day in which the session starts (am before 12:00, pm
\* otherwise) and does not contain the other token
C12_HalfDayTokenDecides ==
    (tq.pc = "done" /\ tq.chamber = Camara)
        => \A i \in 1..Len(tq.items) :
               tq.verdicts[i] => /\ Contains(tq.items[i], KeepToken(tq.time))
                                 /\ ~Contains(tq.items[i], ExcludeToken(tq.time))

\* C13: a title is accepted only if its date fragment (day, month name) is
\* the date of the session
C13_TitleDateIsSessionDate ==
    tq.pc = "done"
        => \A i \in 1..Len(tq.items) :
               tq.verdicts[i] => /\ tq.items[i][Len(tq.items[i]) - 4] = tq.day
                                 /\ tq.items[i][Len(tq.items[i]) - 2] = tq.month

-----------------------------------------------------------------------------
(* Properties of chunk_text and of the retrieval index                     *)

\* tokens [from, to) of a text whose tokens are named by their offsets
Passage(from, to) == [j \in 1..(to - from) |-> from + j - 1]

\* C19: with O < S, passage k of chunk_text is the tokens
\* [k*(S-O), min(k*(S-O)+S, N)) for every k with k*(S-O) < N; every token is
\* in some passage; N = 1200, S = 500, O = 50 gives [0,500), [450,950),
\* [900,1200)
C19_ChunkTextPassages ==
    cq.pc = "done" =>
        LET N == cq.n
            S == cq.chunk_size
            O == cq.overlap
            K == IF N = 0 THEN 0 ELSE ((N - 1) \div (S - O)) + 1
        IN /\ Len(cq.out) = K
           /\ \A k \in 0..(K - 1) :
                 cq.out[k + 1] = Passage(k * (S - O), Min(k * (S - O) + S, N))
           /\ \A t \in 0..(N - 1) :
                 \E k \in 1..Len(cq.out) :
                     /\ Len(cq.out[k]) > 0
                     /\ cq.out[k][1] <= t
                     /\ t <= cq.out[k][Len(cq.out[k])]
           /\ (N = 1200 /\ S = 500 /\ O = 50)
                 => cq.out = <<Passage(0, 500), Passage(450, 950), Passage(900, 1200)>>

C19_Witness ==
    /\ cq.pc = "done"
    /\ cq.n = 1200
    /\ Len(cq.out) = 3
    /\ Len(cq.out[3]) = 300

\* the records of a session in the index
RecordsOf(s) ==
    {id \in DOMAIN index :
        index[id].commission_id = s.commission_id /\ index[id].session_id = s.id}

\* C20: a session indexed any number of times with the same transcript has
\* in the index exactly the records of a single indexing: one record per
\* chunk k, under the id "{commission_id}-{session_id}-{k}", with the text of
\* chunk k
C20_ReindexingIsIdempotent ==
    \A s \in IndexedSessions :
        (Len(ixlog[s]) > 0 /\ \A i \in 1..Len(ixlog[s]) : ixlog[s][i] = ixlog[s][1])
            => LET once == ChunkRecords(WithTranscript(s, Tokens(ixlog[s][1])))
               IN /\ Cardinality(RecordsOf(s)) = Len(once)
                  /\ \A k \in 1..Len(once) :
                        /\ RecordId(s.commission_id, s.id, k - 1) \in DOMAIN index
                        /\ index[RecordId(s.commission_id, s.id, k - 1)] = once[k]

C20_Witness ==
    \E s \in IndexedSessions :
        /\ Len(ixlog[s]) >= 2
        /\ \A i \in 1..Len(ixlog[s]) : ixlog[s][i] = 600
        /\ Cardinality(RecordsOf(s)) = 2

-----------------------------------------------------------------------------
(* Properties of batch and of the loop of chunk_text                       *)

RECURSIVE Flatten(_)
Flatten(ss) == IF ss = <<>> THEN <<>> ELSE Head(ss) \o Flatten(Tail(ss))

\* C21: batch yields exactly ceil(N/size) batches, each non-empty and of at
\* most size records, whose concatenation in order is the original sequence;
\* no remainder is dropped and nothing is yielded for N = 0
C21_BatchIsExhaustive ==
    bq.pc = "done" =>
        /\ Len(bq.out) = (bq.n + bq.size - 1) \div bq.size
        /\ \A i \in 1..Len(bq.out) : Len(bq.out[i]) >= 1 /\ Len(bq.out[i]) <= bq.size
        /\ Flatten(bq.out) = Records(bq.n)
        /\ (bq.n = 0 => bq.out = <<>>)

\* 97 records under the batch size of the index: one full batch and one record
C21_Witness ==
    /\ bq.pc = "done"
    /\ bq.n = 97
    /\ bq.size = BatchSize
    /\ Len(bq.out) = 2
    /\ Len(bq.out[2]) = 1

\* C30: for 0 <= overlap < chunk_size the loop of chunk_text ends, with
\* ceil(N / (chunk_size - overlap)) passages for N > 0 tokens and none for
\* N = 0, and start strictly increases on every turn of the loop
C30_ChunkLoopTerminates ==
    /\ <>(lq.pc = "done")
    /\ [](lq.pc = "done" =>
            Len(lq.chunks) = IF lq.n = 0 THEN 0
                             ELSE (lq.n + (lq.chunk_size - lq.overlap) - 1)
                                      \div (lq.chunk_size - lq.overlap))
    /\ [][lq.pc = "loop" /\ lq'.chunks # lq.chunks => lq'.start > lq.start]_vars

\* the 1200-token text under the defaults: three turns, then the return
C30_Witness ==
    /\ lq.pc = "done"
    /\ lq.n = 1200
    /\ lq.overlap = Overlap
    /\ Len(lq.chunks) = 3

-----------------------------------------------------------------------------
(* Properties of the Chamber crawl                                         *)

\* the months of the calendar that overlap [start, end], in order
OverlappingMonths(start, end) ==
    LET first == start \div (31 * 24)
        last == end \div (31 * 24)
    IN [i \in 1..(last - first + 1) |-> <<(first + i - 1) \div 12, ((first + i - 1) % 12) + 1>>]

\* the months the crawl has selected and those it is still to select
PlannedMonths == mq.selected \o mq.todo

\* C26: for each year from start.year to end.year the Chamber crawl selects
\* exactly the months that overlap [start, end], each once
C26_SelectsTheOverlappingMonths ==
    mq.pc \in {"month", "done"} =>
        /\ Len(PlannedMonths) = Len(OverlappingMonths(mq.start, mq.end))
        /\ Range(PlannedMonths) = Range(OverlappingMonths(mq.start, mq.end))

\* C22: every session a crawler produces has start <= finish, also when the
\* end time of day of the row is earlier than its start time of day
C22_StartNotAfterFinish ==
    \A i \in 1..Len(mq.sessions) : mq.sessions[i].start <= mq.sessions[i].finish

\* the sessions of the well-formed rows of a month
WellFormedSessions(year, month, host) ==
    LET rows == ChamberRows(month)
    IN {ChamberParseRow(rows[i], year, month, ChamberCommission, host).session :
            i \in {j \in 1..Len(rows) :
                      ChamberParseRow(rows[j], year, month, ChamberCommission, host).outcome
                          = "session"}}

\* C25: a malformed row is skipped: the crawl goes on and returns every
\* well-formed session of that page and of the other pages
C25_MalformedRowsAreSkipped ==
    /\ mq.pc # "failed"
    /\ mq.pc = "done" =>
            \A i \in 1..Len(mq.selected) :
                WellFormedSessions(mq.selected[i][1], mq.selected[i][2], mq.host)
                    \subseteq Range(mq.sessions)

-----------------------------------------------------------------------------
(* Further properties of the handlers and of the Senate crawl              *)

PairOf(entry) == <<entry.doc.commission_id, entry.doc.id>>

\* C23: after any deliveries of transcript tasks, redeliveries and sessions
\* of different commissions with the same session id included, the store
\* holds one record per delivered (commission id, session id) pair: no pair
\* is stored twice and no record of a pair is overwritten by another pair's
C23_OneRecordPerPair ==
    /\ [](\A i, j \in 1..Len(store) : PairOf(store[i]) = PairOf(store[j]) => i = j)
    /\ [][\A i \in 1..Len(store) :
            \E j \in 1..Len(store') : PairOf(store'[j]) = PairOf(store[i])]_vars

\* C24: every successful resolution returns the session with both a
\* transcript and a video URL attached
C24_ResolvedHasTranscriptAndVideoUrl ==
    g.outcome = "transcribed" =>
        /\ "transcript" \in DOMAIN h.session
        /\ "video_url" \in DOMAIN h.session

\* C27: the browsing session a crawl acquired is released before the crawl
\* ends, on every exit path: normal return, wait timeout, any exception
C27_DriverReleasedOnEveryExit ==
    cr.pc \in {"done", "failed"} => cr.driver = "quit"

\* C28: when an extract run has ended, also by a failure of the enqueuing
\* part-way, the watermark has been advanced to the end bound of the run only
\* if a transcript task was enqueued for every session the run discovered
C28_AdvancedOnlyIfAllEnqueued ==
    (e.pc = "done" /\ e.pastUpdate /\ ~e.finish_arg.given) =>
        \A k \in 1..Len(e.new_sessions) :
            \E t \in 1..Len(tasks) :
                tasks[t] = Task("transcript", e.new_sessions[k], eruns)

\* C29: the watermark never decreases: after the bootstrap and any extract
\* runs without an explicit finish date every write of last_update stores a
\* value greater than or equal to the stored one
C29_WatermarkNeverDecreases ==
    [][\A c \in CommissionIds :
            commissions'[c].last_update >= commissions[c].last_update]_vars

=========================================================================
